---------------------------- MODULE Spec2Model ----------------------------
(***************************************************************************)
(* State-machine model of the Home Assistant platform adapters             *)
(*   homeassistant/components/qbus/cover.py        (QbusCover)             *)
(*   homeassistant/components/qbus/light.py        (QbusLight)             *)
(*   homeassistant/components/tesla_fleet/select.py (four select entities  *)
(*                                                   and async_setup_entry)*)
(* One adapter instance is modelled per specification: SpecCover,          *)
(* SpecLight, SpecSelect and SpecSetup.  The variables of the other        *)
(* families keep their constructed values.  SpecOutbound is an             *)
(* installation of either integration: a light or a select entity.         *)
(***************************************************************************)
EXTENDS Integers, Sequences, FiniteSets, TLC

VARIABLES
    \* ---- QbusCover ----
    mqtt_output,              \* the output descriptor: [actions, properties]
    supported_features,       \* _attr_supported_features
    target_shutter_position,  \* _target_shutter_position
    target_slat_position,     \* _target_slat_position
    previous_state,           \* _previous_state
    target_state,             \* _target_state
    published,                \* messages handed to _async_publish_output_state by the last command
    ha_update_requests,       \* async_schedule_update_ha_state requests not yet served by the host
    observed,                 \* history of the fields seen in parsed inbound messages
    \* ---- QbusLight ----
    is_on,                    \* _is_on
    brightness_percentage,    \* _brightness_percentage, in 255ths of a percent
    light_call,               \* the method suspended in its publish, with its locals
    light_published,          \* messages handed to _async_publish_output_state by the last command
    light_update_requests,    \* async_schedule_update_ha_state requests not yet served
    light_result,             \* how the last command ended (history)
    \* ---- Tesla Fleet select entity ----
    entity_class,             \* which of the four select classes the entity is
    scopes,                   \* entry.runtime_data.scopes
    scoped,                   \* self.scoped
    attr_current_option,      \* _attr_current_option
    coordinator_data,         \* the coordinator's data the entity reads with get()
    select_call,              \* the async_select_option suspended in an await, with its locals
    commands,                 \* remote commands issued by the running or last call, in order
    select_result,            \* how the last call ended (history)
    ha_state_writes,          \* async_write_ha_state calls of the running or last call
    option_writes,            \* assignments to _attr_current_option by the running or last call
    \* ---- Tesla Fleet async_setup_entry ----
    vehicles,                 \* entry.runtime_data.vehicles
    energysites,              \* entry.runtime_data.energysites: site -> info_coordinator.data
    entities,                 \* what async_add_entities was given
    platform_loaded,          \* async_setup_entry has run for the config entry
    \* ---- the installation ----
    domain                    \* the integration whose config entry is loaded

cover_vars == <<mqtt_output, supported_features, target_shutter_position,
                target_slat_position, previous_state, target_state,
                published, ha_update_requests, observed>>

light_vars == <<is_on, brightness_percentage, light_call, light_published,
                light_update_requests, light_result>>

select_vars == <<entity_class, scopes, scoped, attr_current_option,
                 coordinator_data, select_call, commands, select_result,
                 ha_state_writes, option_writes>>

setup_vars == <<vehicles, energysites, entities, platform_loaded>>

vars == <<cover_vars, light_vars, select_vars, setup_vars, domain>>

\* Each specification runs one adapter; the others are left alone.
OnlyCover == UNCHANGED <<light_vars, select_vars, setup_vars, domain>>

OnlyLight == UNCHANGED <<cover_vars, select_vars, setup_vars, domain>>

OnlySelect == UNCHANGED <<cover_vars, light_vars, setup_vars, domain>>

OnlySetup == UNCHANGED <<cover_vars, light_vars, select_vars, domain>>

(***************************************************************************)
(* Values                                                                  *)
(***************************************************************************)

\* Python's None where a symbolic state (a string) is expected.
None == "None"

\* Python's None where a position (an int) is expected.
NoPosition == -1

\* Hosts may keep this many refresh requests waiting before serving one.
MaxPendingUpdates == 1

\* Shutter and slat positions used as command arguments and message fields.
Positions == {0, 50, 100}

\* Symbolic shutter states carried by messages.
ShutterStates == {"up", "down", "stop"}

\* Capabilities a discovery payload may declare for a shutter output.
OutputActions == {"shutterStop"}

OutputProperties == {"shutterPosition", "slatPosition"}

OutputDescriptors ==
    [actions : SUBSET OutputActions, properties : SUBSET OutputProperties]

(***************************************************************************)
(* QbusMqttShutterState: a message with three optional properties          *)
(***************************************************************************)

\* QbusMqttShutterState(id=..., type=StateType.STATE) with nothing written.
NewShutterState ==
    [type |-> "state", state |-> None, position |-> NoPosition,
     slat_position |-> NoPosition]

write_state(msg, s) == [msg EXCEPT !.state = s]

write_position(msg, p) == [msg EXCEPT !.position = p]

write_slat_position(msg, p) == [msg EXCEPT !.slat_position = p]

\* What parse_output_state can return for an inbound payload: a shutter
\* state with any of its properties present, or None (ParseFailed).
ParseFailed == [type |-> "unparsed"]

ParsedShutterStates ==
    [type : {"state"}, state : ShutterStates \cup {None},
     position : Positions \cup {NoPosition},
     slat_position : Positions \cup {NoPosition}]

ParseOutcomes == ParsedShutterStates \cup {ParseFailed}

(***************************************************************************)
(* QbusCover.__init__                                                      *)
(***************************************************************************)

\* Mutant of CoverFeatures: the tilt features keyed on "shutterPosition".
CoverFeaturesTiltFromPosition(output) ==
    {"OPEN", "CLOSE"}
    \cup (IF "shutterStop" \in output.actions THEN {"STOP"} ELSE {})
    \cup (IF "shutterPosition" \in output.properties THEN {"SET_POSITION"} ELSE {})
    \cup (IF "shutterPosition" \in output.properties
          THEN {"SET_TILT_POSITION", "OPEN_TILT", "CLOSE_TILT"} ELSE {})

CoverFeatures(output) ==
    {"OPEN", "CLOSE"}
    \cup (IF "shutterStop" \in output.actions THEN {"STOP"} ELSE {})
    \cup (IF "shutterPosition" \in output.properties THEN {"SET_POSITION"} ELSE {})
    \cup (IF "slatPosition" \in output.properties
          THEN {"SET_TILT_POSITION", "OPEN_TILT", "CLOSE_TILT"} ELSE {})

NothingObserved ==
    [states |-> << >>, position |-> NoPosition, slat_position |-> NoPosition]

\* The cover of the specifications that exercise another adapter.
CoverIdle ==
    /\ mqtt_output = [actions |-> {}, properties |-> {}]
    /\ supported_features = CoverFeatures(mqtt_output)
    /\ target_shutter_position = NoPosition
    /\ target_slat_position = NoPosition
    /\ previous_state = None
    /\ target_state = None
    /\ published = << >>
    /\ ha_update_requests = 0
    /\ observed = NothingObserved

CoverInit ==
    /\ mqtt_output \in OutputDescriptors
    /\ supported_features = CoverFeatures(mqtt_output)
    /\ target_shutter_position = NoPosition
    /\ target_slat_position = NoPosition
    /\ previous_state = None
    /\ target_state = None
    /\ published = << >>
    /\ ha_update_requests = 0
    /\ observed = NothingObserved

(***************************************************************************)
(* QbusCover properties                                                    *)
(***************************************************************************)

\* Mutant of is_closed: the slat position is not consulted.
is_closed_ignoring_slat ==
    IF "SET_POSITION" \in supported_features
    THEN target_shutter_position = 0
    ELSE previous_state = "down" /\ target_state = "stop"

is_closed ==
    IF "SET_POSITION" \in supported_features
    THEN IF "SET_TILT_POSITION" \in supported_features
         THEN /\ target_shutter_position = 0
              /\ target_slat_position \in {0, 100}
         ELSE target_shutter_position = 0
    ELSE previous_state = "down" /\ target_state = "stop"

current_cover_position ==
    IF "SET_POSITION" \in supported_features
    THEN target_shutter_position ELSE NoPosition

current_cover_tilt_position ==
    IF "SET_TILT_POSITION" \in supported_features
    THEN target_slat_position ELSE NoPosition

(***************************************************************************)
(* QbusCover commands: each builds one state message and publishes it.     *)
(* Nothing of the cache is written by a command.                           *)
(***************************************************************************)

CoverCacheUnchanged ==
    UNCHANGED <<mqtt_output, supported_features, target_shutter_position,
                target_slat_position, previous_state, target_state,
                ha_update_requests, observed>>

\* self._async_publish_output_state(state).
CoverPublish(msg) ==
    /\ published' = <<msg>>
    /\ CoverCacheUnchanged
    /\ OnlyCover

\* Mutant of OpenCoverState: the coarse "up" whatever the features.
OpenCoverStateSymbolic(features) ==
    write_state(NewShutterState, "up")

OpenCoverState(features) ==
    IF "SET_POSITION" \in features
    THEN write_position(NewShutterState, 100)
    ELSE write_state(NewShutterState, "up")

\* Mutant of CloseCoverState: the slat position is never written.
CloseCoverStateNoSlat(features) ==
    IF "SET_POSITION" \in features
    THEN write_position(NewShutterState, 0)
    ELSE write_state(NewShutterState, "down")

CloseCoverState(features) ==
    IF "SET_POSITION" \in features
    THEN IF "SET_TILT_POSITION" \in features
         THEN write_slat_position(write_position(NewShutterState, 0), 0)
         ELSE write_position(NewShutterState, 0)
    ELSE write_state(NewShutterState, "down")

async_open_cover ==
    CoverPublish(OpenCoverState(supported_features))

async_close_cover ==
    CoverPublish(CloseCoverState(supported_features))

async_stop_cover ==
    CoverPublish(write_state(NewShutterState, "stop"))

async_set_cover_position(position) ==
    CoverPublish(write_position(NewShutterState, position))

async_open_cover_tilt ==
    CoverPublish(write_slat_position(NewShutterState, 50))

async_close_cover_tilt ==
    CoverPublish(write_slat_position(NewShutterState, 0))

async_set_cover_tilt_position(position) ==
    CoverPublish(write_slat_position(NewShutterState, position))

(***************************************************************************)
(* QbusCover._state_received                                               *)
(***************************************************************************)

\* History: the last two symbolic states, and the last position and slat
\* position, that parsed inbound messages carried.
Observe(obs, output) ==
    [states |->
        IF output.state = None THEN obs.states
        ELSE IF Len(obs.states) < 2 THEN Append(obs.states, output.state)
        ELSE <<obs.states[2], output.state>>,
     position |->
        IF output.position = NoPosition THEN obs.position ELSE output.position,
     slat_position |->
        IF output.slat_position = NoPosition THEN obs.slat_position
        ELSE output.slat_position]

\* Mutant of CoverStateReceived: "if shutter_position:" in place of
\* "if shutter_position is not None:" (and likewise for the slats), so a
\* reported 0 is dropped.
CoverStateReceivedTruthy(output) ==
    /\ IF output = ParseFailed
       THEN UNCHANGED <<mqtt_output, supported_features, target_shutter_position,
                        target_slat_position, previous_state, target_state,
                        published, ha_update_requests, observed>>
       ELSE /\ ha_update_requests < MaxPendingUpdates
            /\ IF output.state # None
               THEN previous_state' = target_state /\ target_state' = output.state
               ELSE UNCHANGED <<previous_state, target_state>>
            /\ IF output.position \notin {NoPosition, 0}
               THEN target_shutter_position' = output.position
               ELSE UNCHANGED target_shutter_position
            /\ IF output.slat_position \notin {NoPosition, 0}
               THEN target_slat_position' = output.slat_position
               ELSE UNCHANGED target_slat_position
            /\ ha_update_requests' = ha_update_requests + 1
            /\ observed' = Observe(observed, output)
            /\ UNCHANGED <<mqtt_output, supported_features, published>>
    /\ OnlyCover

CoverStateReceived(output) ==
    /\ IF output = ParseFailed
       THEN UNCHANGED <<mqtt_output, supported_features, target_shutter_position,
                        target_slat_position, previous_state, target_state,
                        published, ha_update_requests, observed>>
       ELSE /\ ha_update_requests < MaxPendingUpdates
            /\ IF output.state # None
               THEN previous_state' = target_state /\ target_state' = output.state
               ELSE UNCHANGED <<previous_state, target_state>>
            /\ IF output.position # NoPosition
               THEN target_shutter_position' = output.position
               ELSE UNCHANGED target_shutter_position
            /\ IF output.slat_position # NoPosition
               THEN target_slat_position' = output.slat_position
               ELSE UNCHANGED target_slat_position
            /\ ha_update_requests' = ha_update_requests + 1
            /\ observed' = Observe(observed, output)
            /\ UNCHANGED <<mqtt_output, supported_features, published>>
    /\ OnlyCover

\* The host serves one scheduled refresh (it reads the properties and
\* writes the entity state; nothing of the adapter changes).
CoverHostWritesState ==
    /\ ha_update_requests > 0
    /\ ha_update_requests' = ha_update_requests - 1
    /\ UNCHANGED <<mqtt_output, supported_features, target_shutter_position,
                   target_slat_position, previous_state, target_state,
                   published, observed>>
    /\ OnlyCover

CoverNext ==
    \/ async_open_cover
    \/ async_close_cover
    \/ async_stop_cover
    \/ \E position \in Positions : async_set_cover_position(position)
    \/ async_open_cover_tilt
    \/ async_close_cover_tilt
    \/ \E position \in Positions : async_set_cover_tilt_position(position)
    \/ \E output \in ParseOutcomes : CoverStateReceived(output)
    \/ CoverHostWritesState

(***************************************************************************)
(* homeassistant.util.color: brightness_to_value and value_to_brightness   *)
(* over the range (1, 100).  A percentage p is kept exactly, as the        *)
(* integer 255 * p.                                                        *)
(***************************************************************************)

\* The number of states of the brightness range (1, 255).
BrightnessStates == 255

\* The number of states of the percentage range (1, 100).
PercentageStates == 100

\* A whole percentage, as an inbound message reports it.
Percent(p) == p * BrightnessStates

\* Python's round() of the fraction n / d (n >= 0, d > 0): to the nearest
\* integer, a tie going to the even one.
PyRound(n, d) ==
    LET q == n \div d
        r == n % d
    IN  IF 2 * r < d THEN q
        ELSE IF 2 * r > d THEN q + 1
        ELSE IF q % 2 = 0 THEN q ELSE q + 1

\* brightness_to_value((1, 100), brightness) = brightness * 100 / 255.
brightness_to_value(brightness) == brightness * PercentageStates

\* value_to_brightness((1, 100), value)
\*   = min(255, max(1, round(value * 255 / 100))).
value_to_brightness(value) ==
    LET scaled == PyRound(value, PercentageStates)
        floored == IF scaled < 1 THEN 1 ELSE scaled
    IN  IF floored > BrightnessStates THEN BrightnessStates ELSE floored

(***************************************************************************)
(* QbusLight                                                               *)
(***************************************************************************)

\* kwargs without ATTR_BRIGHTNESS.
NoBrightness == -1

\* What async_turn_on can be called with.
BrightnessArguments == (0 .. 255) \cup {NoBrightness}

\* Whole percentages an inbound analog state may report.
InboundPercentages == {0, 1, 10, 50, 99, 100}

LightIdleCall ==
    [method |-> "idle", brightness |-> NoBrightness, percentage |-> 0]

LightInit ==
    /\ is_on = FALSE
    /\ brightness_percentage = 0
    /\ light_call = LightIdleCall
    /\ light_published = << >>
    /\ light_update_requests = 0
    /\ light_result = "none"

\* QbusLight.brightness
brightness == value_to_brightness(brightness_percentage)

\* Mutant of TurnOnPercentage: a missing brightness defaults to 100.
TurnOnPercentageDefault100(kwargs_brightness) ==
    brightness_to_value(
        IF kwargs_brightness = NoBrightness THEN 100 ELSE kwargs_brightness)

\* The percentage async_turn_on computes from its kwargs.
TurnOnPercentage(kwargs_brightness) ==
    brightness_to_value(
        IF kwargs_brightness = NoBrightness THEN 255 ELSE kwargs_brightness)

\* QbusMqttAnalogState(type=StateType.STATE) after write_percentage.
AnalogState(percentage) == [type |-> "state", percentage |-> percentage]

\* async_turn_on up to its await: the message is built and handed to the
\* publish, and the method is suspended.
async_turn_on(kwargs_brightness) ==
    /\ light_call.method = "idle"
    /\ light_call' = [method |-> "async_turn_on",
                      brightness |-> kwargs_brightness,
                      percentage |-> TurnOnPercentage(kwargs_brightness)]
    /\ light_published' = <<AnalogState(TurnOnPercentage(kwargs_brightness))>>
    /\ light_result' = "running"
    /\ UNCHANGED <<is_on, brightness_percentage, light_update_requests>>
    /\ OnlyLight

\* async_turn_off up to its await.
async_turn_off ==
    /\ light_call.method = "idle"
    /\ light_call' = [method |-> "async_turn_off",
                      brightness |-> NoBrightness, percentage |-> 0]
    /\ light_published' = <<AnalogState(0)>>
    /\ light_result' = "running"
    /\ UNCHANGED <<is_on, brightness_percentage, light_update_requests>>
    /\ OnlyLight

\* Mutant of LightPublishReturns: the cache is written even when the publish
\* raised.
LightPublishReturnsWritesAnyway(ok) ==
    /\ light_call.method # "idle"
    /\ is_on' = (light_call.method = "async_turn_on")
    /\ brightness_percentage' =
         IF light_call.method = "async_turn_on" THEN light_call.percentage ELSE 0
    /\ light_result' = IF ok THEN "returned" ELSE "raised"
    /\ light_call' = LightIdleCall
    /\ light_published' = << >>
    /\ UNCHANGED light_update_requests
    /\ OnlyLight

\* The awaited publish returns (ok) or raises: the rest of the suspended
\* method runs, or the exception leaves it.  The message is with the client.
LightPublishReturns(ok) ==
    /\ light_call.method # "idle"
    /\ IF ok
       THEN /\ is_on' = (light_call.method = "async_turn_on")
            /\ brightness_percentage' =
                 IF light_call.method = "async_turn_on"
                 THEN light_call.percentage ELSE 0
            /\ light_result' = "returned"
       ELSE /\ UNCHANGED <<is_on, brightness_percentage>>
            /\ light_result' = "raised"
    /\ light_call' = LightIdleCall
    /\ light_published' = << >>
    /\ UNCHANGED light_update_requests
    /\ OnlyLight

\* QbusLight._state_received; percentage is what output.read_percentage()
\* returns, or NoBrightness when parse_output_state returned None.
LightStateReceived(percentage) ==
    /\ OnlyLight
    /\ IF percentage = NoBrightness
       THEN UNCHANGED light_vars
       ELSE /\ light_update_requests < MaxPendingUpdates
            /\ brightness_percentage' = Percent(percentage)
            /\ is_on' = (Percent(percentage) > 0)
            /\ light_update_requests' = light_update_requests + 1
            /\ UNCHANGED <<light_call, light_published, light_result>>

LightHostWritesState ==
    /\ light_update_requests > 0
    /\ light_update_requests' = light_update_requests - 1
    /\ UNCHANGED <<is_on, brightness_percentage, light_call, light_published,
                   light_result>>
    /\ OnlyLight

LightNext ==
    \/ \E kwargs_brightness \in BrightnessArguments : async_turn_on(kwargs_brightness)
    \/ async_turn_off
    \/ \E ok \in BOOLEAN : LightPublishReturns(ok)
    \/ \E percentage \in InboundPercentages \cup {NoBrightness} :
            LightStateReceived(percentage)
    \/ LightHostWritesState

(***************************************************************************)
(* Tesla Fleet select entities                                             *)
(***************************************************************************)

\* Scope.VEHICLE_CMDS and Scope.ENERGY_CMDS.
Scopes == {"vehicle_cmds", "energy_cmds"}

HeaterClasses == {"seat_heater", "wheel_heater"}

EnergyClasses == {"operation", "export_rule"}

\* _attr_options of each class.
attr_options(class) ==
    CASE class = "seat_heater" -> <<"off", "low", "medium", "high">>
      [] class = "wheel_heater" -> <<"off", "low", "high">>
      [] class = "operation" -> <<"autonomous", "backup", "self_consumption">>
      [] class = "export_rule" -> <<"never", "battery_ok", "pv_only">>

Range(seq) == {seq[i] : i \in 1 .. Len(seq)}

\* Options a caller may pass: those of the class, and one of no class.
OptionArguments(class) == Range(attr_options(class)) \cup {"bogus"}

\* The coordinator holds no value for the entity's key.
NoLevel == -1

\* list.index raised ValueError.
ValueError == -2

\* Mutant of index: an unknown option counts as the first one.
index_or_first(options, option) ==
    IF option \in Range(options)
    THEN (CHOOSE i \in 1 .. Len(options) :
            options[i] = option /\ \A j \in 1 .. (i - 1) : options[j] # option) - 1
    ELSE 0

\* options.index(option): the 0-based place of the option, or ValueError.
index(options, option) ==
    IF option \in Range(options)
    THEN (CHOOSE i \in 1 .. Len(options) :
            options[i] = option /\ \A j \in 1 .. (i - 1) : options[j] # option) - 1
    ELSE ValueError

\* The scope whose absence makes the entity read-only.
GatingScope(class) ==
    IF class \in HeaterClasses THEN "vehicle_cmds" ELSE "energy_cmds"

\* Mutant of Scoped: the heaters ask for the energy scope and the energy
\* selects for the vehicle scope.
ScopedSwapped(class, granted) ==
    IF class \in HeaterClasses
    THEN "energy_cmds" \in granted
    ELSE "vehicle_cmds" \in granted

\* self.scoped, as each __init__ sets it.
Scoped(class, granted) ==
    IF class \in HeaterClasses
    THEN "vehicle_cmds" \in granted
    ELSE "energy_cmds" \in granted

\* What the coordinator may hold for the entity: the vehicle's state, its
\* climate_state_is_climate_on, and the value under the entity's key (a
\* heat level or NoLevel for a heater, an option or None for an energy site).
CoordinatorData(class) ==
    IF class \in HeaterClasses
    THEN [state : {"online", "asleep"}, climate_on : BOOLEAN,
          value : (0 .. (Len(attr_options(class)) - 1)) \cup {NoLevel}]
    ELSE [state : {"online"}, climate_on : {FALSE},
          value : Range(attr_options(class)) \cup {None}]

\* _async_update_attrs: the option the entity shows for the coordinator's data.
async_update_attrs(class, data) ==
    CASE class \in HeaterClasses ->
            IF data.value = NoLevel THEN None
            ELSE attr_options(class)[data.value + 1]
      [] class = "operation" -> data.value
      [] class = "export_rule" ->
            IF data.value = None THEN "never" ELSE data.value

NoCall == [step |-> "idle", option |-> None, level |-> NoLevel, climate |-> "not read"]

Command(name, level, option) == [name |-> name, level |-> level, option |-> option]

SelectInit ==
    /\ entity_class \in HeaterClasses \cup EnergyClasses
    /\ scopes \in SUBSET Scopes
    /\ scoped = Scoped(entity_class, scopes)
    /\ coordinator_data \in CoordinatorData(entity_class)
    /\ attr_current_option = async_update_attrs(entity_class, coordinator_data)
    /\ select_call = NoCall
    /\ commands = << >>
    /\ select_result = "none"
    /\ ha_state_writes = 0
    /\ option_writes = 0

\* The select entity of the specifications that exercise another adapter.
SelectIdle ==
    /\ entity_class = "seat_heater"
    /\ scopes = {}
    /\ scoped = Scoped(entity_class, scopes)
    /\ coordinator_data = [state |-> "online", climate_on |-> FALSE, value |-> NoLevel]
    /\ attr_current_option = async_update_attrs(entity_class, coordinator_data)
    /\ select_call = NoCall
    /\ commands = << >>
    /\ select_result = "none"
    /\ ha_state_writes = 0
    /\ option_writes = 0

\* The coordinator refreshes its data and the entity follows
\* (_handle_coordinator_update calls _async_update_attrs).
CoordinatorUpdate(data) ==
    /\ coordinator_data' = data
    /\ attr_current_option' = async_update_attrs(entity_class, data)
    /\ UNCHANGED <<entity_class, scopes, scoped, select_call, commands,
                   select_result, ha_state_writes, option_writes>>
    /\ OnlySelect

\* The call ends by raising.
Raise(error) ==
    /\ select_result' = error
    /\ select_call' = [select_call EXCEPT !.step = "idle"]

\* Mutant of NeedsClimateStart: the "not" is lost.
NeedsClimateStartWhenOn(level, climate_on) == level # 0 /\ climate_on

\* "if level and not self.get('climate_state_is_climate_on')"
NeedsClimateStart(level, climate_on) == level # 0 /\ ~climate_on

HeaterCommandName(class) ==
    IF class = "seat_heater" THEN "remote_seat_heater_request"
    ELSE "remote_steering_wheel_heat_level_request"

\* A heater's async_select_option from the return of wake_up_if_asleep to
\* its next await: the index lookup, the climate check and the command that
\* follows.  issued is the log of commands and call the locals so far.
HeaterAfterWakeUp(issued, call) ==
    LET level == index(attr_options(entity_class), call.option)
        climate_on == coordinator_data'.climate_on
        \* "level and ..." reads the climate state only for a nonzero level
        climate == IF level = 0 THEN "not read"
                   ELSE IF climate_on THEN "on" ELSE "off"
    IN  IF level = ValueError
        THEN /\ select_result' = "lookup_error"
             /\ select_call' = [call EXCEPT !.step = "idle"]
             /\ commands' = issued
        ELSE IF NeedsClimateStart(level, climate_on)
        THEN /\ select_call' = [call EXCEPT !.step = "auto_conditioning_start",
                                            !.level = level, !.climate = climate]
             /\ commands' = Append(issued, Command("auto_conditioning_start", NoLevel, None))
             /\ select_result' = "running"
        ELSE /\ select_call' = [call EXCEPT !.step = "heater", !.level = level,
                                            !.climate = climate]
             /\ commands' = Append(issued, Command(HeaterCommandName(entity_class), level, None))
             /\ select_result' = "running"

EnergyCommandName(class) ==
    IF class = "operation" THEN "operation" ELSE "grid_import_export"

\* raise_for_read_only(scope) raises when the entity is not scoped.
ReadOnly == ~scoped

\* wake_up_if_asleep() sends wake_up when the vehicle is not online.
VehicleAsleep == coordinator_data.state # "online"

\* async_select_option(option), up to its first await.
async_select_option(option) ==
    /\ select_call.step = "idle"
    /\ ha_state_writes' = 0
    /\ option_writes' = 0
    /\ UNCHANGED <<entity_class, scopes, scoped, attr_current_option, coordinator_data>>
    /\ OnlySelect
    /\ IF ReadOnly
       THEN /\ select_result' = "read_only"
            /\ select_call' = [NoCall EXCEPT !.option = option]
            /\ commands' = << >>
       ELSE IF entity_class \in EnergyClasses
       THEN /\ select_call' = [NoCall EXCEPT !.step = "command", !.option = option]
            /\ commands' = <<Command(EnergyCommandName(entity_class), NoLevel, option)>>
            /\ select_result' = "running"
       ELSE IF VehicleAsleep
       THEN /\ select_call' = [NoCall EXCEPT !.step = "wake_up", !.option = option]
            /\ commands' = <<Command("wake_up", NoLevel, None)>>
            /\ select_result' = "running"
       ELSE HeaterAfterWakeUp(<< >>, [NoCall EXCEPT !.option = option])

\* wake_up returns (the vehicle is online) or raises.
WakeUpReturns(ok) ==
    /\ select_call.step = "wake_up"
    /\ UNCHANGED <<entity_class, scopes, scoped, attr_current_option,
                   ha_state_writes, option_writes>>
    /\ OnlySelect
    /\ IF ok
       THEN /\ coordinator_data' = [coordinator_data EXCEPT !.state = "online"]
            /\ HeaterAfterWakeUp(commands, select_call)
       ELSE /\ Raise("command_error")
            /\ UNCHANGED <<coordinator_data, commands>>

\* auto_conditioning_start returns or raises.
ClimateStartReturns(ok) ==
    /\ select_call.step = "auto_conditioning_start"
    /\ UNCHANGED <<entity_class, scopes, scoped, attr_current_option,
                   coordinator_data, ha_state_writes, option_writes>>
    /\ OnlySelect
    /\ IF ok
       THEN /\ select_call' = [select_call EXCEPT !.step = "heater"]
            /\ commands' = Append(commands,
                    Command(HeaterCommandName(entity_class), select_call.level, None))
            /\ select_result' = "running"
       ELSE /\ Raise("command_error")
            /\ UNCHANGED commands

\* The last command of the call (heater level, operation mode or export
\* rule) returns or raises; on return the option is cached and written.
CommandReturns(ok) ==
    /\ select_call.step \in {"heater", "command"}
    /\ UNCHANGED <<entity_class, scopes, scoped, coordinator_data, commands>>
    /\ OnlySelect
    /\ IF ok
       THEN /\ attr_current_option' = select_call.option
            /\ option_writes' = option_writes + 1
            /\ ha_state_writes' = ha_state_writes + 1
            /\ select_result' = "ok"
            /\ select_call' = [select_call EXCEPT !.step = "idle"]
       ELSE /\ Raise("command_error")
            /\ UNCHANGED <<attr_current_option, option_writes, ha_state_writes>>

SelectNext ==
    \/ \E option \in OptionArguments(entity_class) : async_select_option(option)
    \/ \E ok \in BOOLEAN : WakeUpReturns(ok)
    \/ \E ok \in BOOLEAN : ClimateStartReturns(ok)
    \/ \E ok \in BOOLEAN : CommandReturns(ok)
    \/ \E data \in CoordinatorData(entity_class) : CoordinatorUpdate(data)

(***************************************************************************)
(* Tesla Fleet async_setup_entry                                           *)
(***************************************************************************)

\* Most vehicles and energy sites of a config entry.
MaxVehicles == 1

MaxSites == 2

\* What info_coordinator.data holds under a components_* key: nothing (get
\* returns None), False or True.
InfoValues == {"absent", "false", "true"}

InfoData == [components_battery : InfoValues, components_solar : InfoValues]

\* Python truth of data.get(key).
get(data, key) == data[key] = "true"

\* The keys of SEAT_HEATER_DESCRIPTIONS.
SEAT_HEATER_DESCRIPTIONS ==
    {"climate_state_seat_heater_left", "climate_state_seat_heater_right",
     "climate_state_seat_heater_rear_left", "climate_state_seat_heater_rear_center",
     "climate_state_seat_heater_rear_right",
     "climate_state_seat_heater_third_row_left",
     "climate_state_seat_heater_third_row_right"}

SetupInit ==
    /\ vehicles \in SUBSET (1 .. MaxVehicles)
    /\ \E n \in 0 .. MaxSites : energysites \in [1 .. n -> InfoData]
    /\ entities = {}
    /\ platform_loaded = FALSE

SetupIdle ==
    /\ vehicles = {}
    /\ energysites = << >>
    /\ entities = {}
    /\ platform_loaded = FALSE

Entity(class, of, key) == [class |-> class, of |-> of, key |-> key]

\* Mutant of RegistersExportRule: solar is not asked for.
RegistersExportRuleBatteryOnly(data) == get(data, "components_battery")

\* The filter of the TeslaFleetOperationSelectEntity generator.
RegistersOperation(data) == get(data, "components_battery")

\* The filter of the TeslaFleetExportRuleSelectEntity generator.
RegistersExportRule(data) ==
    get(data, "components_battery") /\ get(data, "components_solar")

async_setup_entry ==
    /\ ~platform_loaded
    /\ platform_loaded' = TRUE
    /\ entities' =
         {Entity("seat_heater", v, d) : v \in vehicles, d \in SEAT_HEATER_DESCRIPTIONS}
         \cup {Entity("wheel_heater", v, "climate_state_steering_wheel_heat_level") :
                    v \in vehicles}
         \cup {Entity("operation", site, "default_real_mode") :
                    site \in {x \in DOMAIN energysites : RegistersOperation(energysites[x])}}
         \cup {Entity("export_rule", site, "components_customer_preferred_export_rule") :
                    site \in {x \in DOMAIN energysites : RegistersExportRule(energysites[x])}}
    /\ UNCHANGED <<vehicles, energysites>>
    /\ OnlySetup

\* A site's info coordinator refreshes its data.
EnergyInfoRefresh(site, data) ==
    /\ site \in DOMAIN energysites
    /\ energysites' = [energysites EXCEPT ![site] = data]
    /\ UNCHANGED <<vehicles, entities, platform_loaded>>
    /\ OnlySetup

SetupNext ==
    \/ async_setup_entry
    \/ \E site \in 1 .. MaxSites, data \in InfoData : EnergyInfoRefresh(site, data)

(***************************************************************************)
(* Specifications                                                          *)
(***************************************************************************)

\* DOMAIN of each integration (the components/ directory it lives in).
Domains == {"qbus", "tesla_fleet"}

SelectSpecInit ==
    CoverIdle /\ LightInit /\ SelectInit /\ SetupIdle /\ domain = "tesla_fleet"

SpecSelect == SelectSpecInit /\ [][SelectNext]_vars

SetupSpecInit ==
    CoverIdle /\ LightInit /\ SelectIdle /\ SetupInit /\ domain = "tesla_fleet"

SpecSetup == SetupSpecInit /\ [][SetupNext]_vars

LightSpecInit ==
    CoverIdle /\ LightInit /\ SelectIdle /\ SetupIdle /\ domain = "qbus"

SpecLight == LightSpecInit /\ [][LightNext]_vars

CoverSpecInit ==
    CoverInit /\ LightInit /\ SelectIdle /\ SetupIdle /\ domain = "qbus"

SpecCover == CoverSpecInit /\ [][CoverNext]_vars

\* An installation with one integration loaded: a QbusLight when it is qbus,
\* a select entity when it is tesla_fleet.  Only the loaded integration's
\* entity is called.
OutboundSpecInit ==
    /\ domain \in Domains
    /\ CoverIdle
    /\ LightInit
    /\ SetupIdle
    /\ IF domain = "qbus" THEN SelectIdle ELSE SelectInit

OutboundNext ==
    \/ \E kwargs_brightness \in BrightnessArguments :
            domain = "qbus" /\ async_turn_on(kwargs_brightness)
    \/ domain = "qbus" /\ async_turn_off
    \/ \E ok \in BOOLEAN : domain = "qbus" /\ LightPublishReturns(ok)
    \/ \E percentage \in InboundPercentages \cup {NoBrightness} :
            domain = "qbus" /\ LightStateReceived(percentage)
    \/ domain = "qbus" /\ LightHostWritesState
    \/ \E option \in OptionArguments(entity_class) :
            domain = "tesla_fleet" /\ async_select_option(option)
    \/ \E ok \in BOOLEAN : domain = "tesla_fleet" /\ WakeUpReturns(ok)
    \/ \E ok \in BOOLEAN : domain = "tesla_fleet" /\ ClimateStartReturns(ok)
    \/ \E ok \in BOOLEAN : domain = "tesla_fleet" /\ CommandReturns(ok)
    \/ \E data \in CoordinatorData(entity_class) :
            domain = "tesla_fleet" /\ CoordinatorUpdate(data)

SpecOutbound == OutboundSpecInit /\ [][OutboundNext]_vars

(***************************************************************************)
(* Cover claims                                                            *)
(***************************************************************************)

\* An inbound state that reports every value a published message wrote.
Echoes(output, msg) ==
    /\ output # ParseFailed
    /\ msg.state # None => output.state = msg.state
    /\ msg.position # NoPosition => output.position = msg.position
    /\ msg.slat_position # NoPosition => output.slat_position = msg.slat_position

TiltClosedIfSupported ==
    "SET_TILT_POSITION" \in supported_features
        => current_cover_tilt_position \in {0, 100}

\* C1 as stated: with SET_POSITION supported, once async_close_cover has
\* completed is_closed is True and, with SET_TILT_POSITION, the cached tilt
\* position is 0 or 100.
C1_ClosedOnceCloseCompleted ==
    [][("SET_POSITION" \in supported_features /\ async_close_cover)
        => (is_closed /\ TiltClosedIfSupported)']_vars

\* C1 amended: with SET_POSITION supported, async_close_cover only publishes
\* its write and leaves is_closed and the cached positions as they were; an
\* inbound state message that reports the values the close writes (position
\* 0, and slat position 0 with SET_TILT_POSITION) makes is_closed True and
\* the cached tilt position 0 or 100.
C1_ClosedOnceCloseIsEchoed ==
    /\ [][("SET_POSITION" \in supported_features /\ async_close_cover)
            => /\ is_closed' = is_closed
               /\ UNCHANGED <<target_shutter_position, target_slat_position>>]_vars
    /\ [][\A output \in ParsedShutterStates :
            ( /\ "SET_POSITION" \in supported_features
              /\ Echoes(output, CloseCoverState(supported_features))
              /\ CoverStateReceived(output) )
            => (is_closed /\ TiltClosedIfSupported)']_vars

\* C1 witness: a tilt-capable positioned cover whose close was published and
\* then reported back, and that now reads closed.
C1_Witness ==
    /\ {"SET_POSITION", "SET_TILT_POSITION"} \subseteq supported_features
    /\ published = <<CloseCoverState(supported_features)>>
    /\ target_shutter_position = 0
    /\ target_slat_position = 0
    /\ is_closed

\* C7: is_closed is a function of what the inbound messages reported: with
\* SET_POSITION it is True iff the last reported shutter position is 0 (and,
\* with SET_TILT_POSITION, the last reported slat position is 0 or 100);
\* without SET_POSITION it is True iff the last two reported symbolic states
\* were "down" then "stop".  So, without SET_POSITION, a further reported
\* state makes a closed cover not closed, and a message without a state
\* field leaves is_closed as it was.
C7_IsClosedDerived ==
    /\ [](is_closed <=>
            IF "SET_POSITION" \in supported_features
            THEN /\ observed.position = 0
                 /\ "SET_TILT_POSITION" \in supported_features
                        => observed.slat_position \in {0, 100}
            ELSE observed.states = <<"down", "stop">>)
    /\ [][\A output \in ParsedShutterStates :
            ("SET_POSITION" \notin supported_features /\ CoverStateReceived(output))
            => IF output.state = None
               THEN is_closed' = is_closed
               ELSE is_closed => ~is_closed']_vars

\* C7 witness: a cover without position support that saw "down", "stop" and
\* then a second "stop", and so is no longer closed.
C7_Witness ==
    /\ "SET_POSITION" \notin supported_features
    /\ observed.states = <<"stop", "stop">>
    /\ previous_state = "stop"
    /\ ~is_closed

\* C8: a parsed inbound message updates each cached field exactly when the
\* message carries it (the symbolic state shifting the old one to
\* previous_state), keeps every other field, and requests exactly one
\* refresh; an unparsed message changes no cached field and requests none.
C8_StateReceivedFrame ==
    [][\A output \in ParseOutcomes :
        CoverStateReceived(output) =>
            IF output = ParseFailed
            THEN UNCHANGED <<target_state, previous_state, target_shutter_position,
                             target_slat_position, ha_update_requests>>
            ELSE /\ IF output.state # None
                    THEN target_state' = output.state /\ previous_state' = target_state
                    ELSE UNCHANGED <<target_state, previous_state>>
                 /\ IF output.position # NoPosition
                    THEN target_shutter_position' = output.position
                    ELSE UNCHANGED target_shutter_position
                 /\ IF output.slat_position # NoPosition
                    THEN target_slat_position' = output.slat_position
                    ELSE UNCHANGED target_slat_position
                 /\ ha_update_requests' = ha_update_requests + 1]_vars

\* C8 witness: a parsed message with a shutter position of 0 and without a
\* slat position was applied: the position is cached, the slat position is
\* still unset and one refresh is waiting.
C8_Witness ==
    /\ target_shutter_position = 0
    /\ target_slat_position = NoPosition
    /\ target_state = "down"
    /\ previous_state = None
    /\ ha_update_requests = 1

\* C9: the supported-feature set is the one the output descriptor fixes
\* (OPEN and CLOSE always; STOP iff "shutterStop" is an action; SET_POSITION
\* iff "shutterPosition" is a property; the three tilt features iff
\* "slatPosition" is a property) and no operation changes it.
C9_FeaturesFixedByDescriptor ==
    /\ [] /\ {"OPEN", "CLOSE"} \subseteq supported_features
          /\ supported_features \subseteq
                {"OPEN", "CLOSE", "STOP", "SET_POSITION",
                 "SET_TILT_POSITION", "OPEN_TILT", "CLOSE_TILT"}
          /\ "STOP" \in supported_features <=> "shutterStop" \in mqtt_output.actions
          /\ "SET_POSITION" \in supported_features
                <=> "shutterPosition" \in mqtt_output.properties
          /\ \A f \in {"SET_TILT_POSITION", "OPEN_TILT", "CLOSE_TILT"} :
                f \in supported_features <=> "slatPosition" \in mqtt_output.properties
    /\ [][supported_features' = supported_features /\ mqtt_output' = mqtt_output]_vars

\* C9 witness: a slats-only output after a command and an inbound message.
C9_Witness ==
    /\ mqtt_output.properties = {"slatPosition"}
    /\ "SET_POSITION" \notin supported_features
    /\ "CLOSE_TILT" \in supported_features
    /\ published # << >>
    /\ target_state # None


\* C11: async_open_cover and async_close_cover each publish exactly one
\* message, of type "state", whose content is a function of the supported
\* features alone.  With SET_POSITION: open writes position 100, close
\* writes position 0 and, iff SET_TILT_POSITION is supported, slat position
\* 0; no symbolic state is written.  Without SET_POSITION: open writes the
\* symbolic state "up", close writes "down"; no position and no slat
\* position is written.
C11_OpenCloseMessage ==
    /\ [][async_open_cover =>
            /\ Len(published') = 1
            /\ published'[1] =
                 IF "SET_POSITION" \in supported_features
                 THEN [type |-> "state", state |-> None,
                       position |-> 100, slat_position |-> NoPosition]
                 ELSE [type |-> "state", state |-> "up",
                       position |-> NoPosition, slat_position |-> NoPosition]]_vars
    /\ [][async_close_cover =>
            /\ Len(published') = 1
            /\ published'[1] =
                 IF "SET_POSITION" \in supported_features
                 THEN [type |-> "state", state |-> None, position |-> 0,
                       slat_position |->
                         IF "SET_TILT_POSITION" \in supported_features
                         THEN 0 ELSE NoPosition]
                 ELSE [type |-> "state", state |-> "down",
                       position |-> NoPosition, slat_position |-> NoPosition]]_vars

\* C11 witness: a slats-only cover (tilt without position) was closed: the
\* message carries "down" and neither a position nor a slat position.
C11_Witness ==
    /\ "SET_POSITION" \notin supported_features
    /\ "SET_TILT_POSITION" \in supported_features
    /\ published = <<[type |-> "state", state |-> "down",
                      position |-> NoPosition, slat_position |-> NoPosition]>>

(***************************************************************************)
(* Light claims                                                            *)
(***************************************************************************)

\* C5: when async_turn_on(brightness=b) completes, the brightness property
\* reads a value in 0..255 at most 1 away from b; when it completes without
\* a brightness argument, the property reads 255.
C5_BrightnessRoundTrip ==
    [][(light_call.method = "async_turn_on" /\ LightPublishReturns(TRUE))
        => /\ brightness' \in 0 .. 255
           /\ IF light_call.brightness = NoBrightness
              THEN brightness' = 255
              ELSE /\ brightness' - light_call.brightness <= 1
                   /\ light_call.brightness - brightness' <= 1]_vars

\* C5 witness: async_turn_on(brightness=128) has completed and the property
\* reads 128.
C5_Witness ==
    /\ light_result = "returned"
    /\ light_call.method = "idle"
    /\ is_on
    /\ brightness_percentage = brightness_to_value(128)
    /\ brightness = 128

\* C6 as stated: in every reachable state, is_on is True iff the cached
\* brightness percentage is greater than 0.
C6_IsOnIffPercentagePositive ==
    is_on <=> brightness_percentage > 0


(***************************************************************************)
(* Select claims                                                           *)
(***************************************************************************)

CommandNames == {commands[i].name : i \in 1 .. Len(commands)}

\* C2: for each of the four select classes, when the gating scope
\* (VEHICLE_CMDS for the heaters, ENERGY_CMDS for the energy selects) is not
\* granted, async_select_option raises the read-only failure at once: no
\* remote command is ever issued, no state is written, and the call leaves
\* the cached current option as it was.
C2_ReadOnlyFailsFirst ==
    /\ [](GatingScope(entity_class) \notin scopes
            => /\ commands = << >>
               /\ select_call.step = "idle"
               /\ select_result \in {"none", "read_only"}
               /\ option_writes = 0
               /\ ha_state_writes = 0)
    /\ [][\A option \in OptionArguments(entity_class) :
            (GatingScope(entity_class) \notin scopes /\ async_select_option(option))
            => /\ select_result' = "read_only"
               /\ commands' = << >>
               /\ attr_current_option' = attr_current_option]_vars

\* C2 witness: an export-rule select without the energy scope was asked for
\* an option of its list and refused.
C2_Witness ==
    /\ entity_class = "export_rule"
    /\ scopes = {"vehicle_cmds"}
    /\ select_result = "read_only"
    /\ select_call.option = "pv_only"
    /\ attr_current_option = "never"

\* C3: for a scoped heater select, a call that found a nonzero level and the
\* climate off has issued exactly one auto_conditioning_start; the heater
\* command is issued only once that command has returned, directly after it,
\* once, and carries the level; a call that ended well issued just these two
\* after its optional wake_up.
C3_ClimateStartBeforeHeater ==
    ( /\ entity_class \in HeaterClasses
      /\ select_call.level > 0
      /\ select_call.climate = "off" )
    => LET n == Len(commands)
           starts == {i \in 1 .. n : commands[i].name = "auto_conditioning_start"}
           heats == {i \in 1 .. n : commands[i].name = HeaterCommandName(entity_class)}
       IN  /\ Cardinality(starts) = 1
           /\ Cardinality(heats) <= 1
           /\ \A h \in heats :
                /\ h = n
                /\ (h - 1) \in starts
                /\ commands[h].level = select_call.level
           /\ select_call.step = "auto_conditioning_start" => heats = {}
           /\ select_call.step = "heater" => heats # {}
           /\ select_result = "ok" => heats # {}
           /\ \A i \in 1 .. n : i \notin starts \cup heats
                => i = 1 /\ commands[i].name = "wake_up"

\* C3 witness: a seat heater set to "medium" with the vehicle asleep and the
\* climate off: wake_up, auto_conditioning_start, then the heater at level 2.
C3_Witness ==
    /\ entity_class = "seat_heater"
    /\ select_result = "ok"
    /\ select_call.option = "medium"
    /\ select_call.climate = "off"
    /\ commands = <<Command("wake_up", NoLevel, None),
                    Command("auto_conditioning_start", NoLevel, None),
                    Command("remote_seat_heater_request", 2, None)>>

\* C4 as stated: for each of the four select classes with the gating scope
\* granted, a call with an option outside _attr_options ends in a lookup
\* failure, has issued no remote command and has not written the cached
\* current option (read here of the calls in which no remote command
\* failed).
C4_UnknownOptionRaisesLookup ==
    ( /\ GatingScope(entity_class) \in scopes
      /\ select_call.option \notin Range(attr_options(entity_class))
      /\ select_call.step = "idle"
      /\ select_result \notin {"none", "command_error"} )
    => /\ select_result = "lookup_error"
       /\ commands = << >>
       /\ option_writes = 0

\* C4 amended: for the seat-heater and steering-wheel-heater selects with
\* VEHICLE_CMDS granted, a call with an option outside _attr_options issues
\* no auto_conditioning_start and no heater command and never writes the
\* cached option or the state: it sends wake_up first when the vehicle is
\* not online, and raises the lookup failure as soon as wake_up_if_asleep
\* has returned (or the wake_up's own failure).  The operation-mode and
\* export-rule selects look nothing up: they never raise a lookup failure,
\* send the option as given and cache it when the command returns.
C4_UnknownOptionHeaterLookup ==
    /\ ( /\ entity_class \in HeaterClasses
         /\ "vehicle_cmds" \in scopes
         /\ select_call.option \notin Range(attr_options(entity_class))
         /\ select_result # "none" )
       => /\ CommandNames \subseteq {"wake_up"}
          /\ option_writes = 0
          /\ ha_state_writes = 0
          /\ select_call.step \in {"idle", "wake_up"}
          /\ select_call.step = "wake_up" => select_result = "running"
          /\ select_call.step = "idle" =>
                \/ select_result = "lookup_error"
                \/ select_result = "command_error" /\ Len(commands) = 1
    /\ ( /\ entity_class \in EnergyClasses
         /\ "energy_cmds" \in scopes
         /\ select_result # "none" )
       => /\ select_result # "lookup_error"
          /\ commands = <<Command(EnergyCommandName(entity_class), NoLevel,
                                  select_call.option)>>
          /\ select_result = "ok" => option_writes = 1

\* C4 witness: a scoped steering-wheel select of a sleeping vehicle was asked
\* for an unknown option: wake_up was sent and the lookup then failed.
C4_Witness ==
    /\ entity_class = "wheel_heater"
    /\ "vehicle_cmds" \in scopes
    /\ select_call.option = "bogus"
    /\ select_result = "lookup_error"
    /\ commands = <<Command("wake_up", NoLevel, None)>>

(***************************************************************************)
(* Setup claims                                                            *)
(***************************************************************************)

\* C10: async_setup_entry registers an export-rule select for an energy site
\* only if the site's info data holds a true components_battery and a true
\* components_solar, and an operation-mode select only if it holds a true
\* components_battery; nothing else registers or removes an entity.
C10_EnergySelectsNeedComponents ==
    /\ [][async_setup_entry =>
            \A e \in entities' :
                /\ e.class = "export_rule" =>
                     /\ e.of \in DOMAIN energysites
                     /\ energysites[e.of].components_battery = "true"
                     /\ energysites[e.of].components_solar = "true"
                /\ e.class = "operation" =>
                     /\ e.of \in DOMAIN energysites
                     /\ energysites[e.of].components_battery = "true"]_vars
    /\ [][entities' # entities => async_setup_entry]_vars

\* C10 witness: after setup, one site has both selects and another, with a
\* battery and no solar, has the operation-mode select alone.
C10_Witness ==
    /\ platform_loaded
    /\ \E a, b \in DOMAIN energysites :
        /\ Entity("export_rule", a, "components_customer_preferred_export_rule") \in entities
        /\ Entity("operation", a, "default_real_mode") \in entities
        /\ Entity("operation", b, "default_real_mode") \in entities
        /\ Entity("export_rule", b, "components_customer_preferred_export_rule") \notin entities
        /\ energysites[b].components_solar # "true"

(***************************************************************************)
(* Outbound-call claims                                                    *)
(***************************************************************************)

\* C12: a cache is written by a command only after its outbound call has
\* returned.  Light: starting async_turn_on / async_turn_off, and the publish
\* raising, leave is_on and the cached percentage as they are and request no
\* refresh; while a command runs, the only steps that change the cache are
\* the publish returning well and an inbound state message.  Select: every
\* step of async_select_option up to a remote command raising (wake_up,
\* auto_conditioning_start, heater, operation, grid_import_export) leaves the
\* cached option as it is and writes no state, so a call that ended in a
\* command failure, a heater failing after a successful
\* auto_conditioning_start included, has assigned the option and written the
\* state zero times; the cached option changes only when the last command
\* returns well or the coordinator refreshes it.
C12_CacheWrittenOnlyAfterReturn ==
    /\ [][(light_call.method = "idle" /\ light_call'.method # "idle")
            => UNCHANGED <<is_on, brightness_percentage, light_update_requests>>]_vars
    /\ [][(light_call.method # "idle" /\ light_result' = "raised")
            => UNCHANGED <<is_on, brightness_percentage, light_update_requests>>]_vars
    /\ [][<<is_on, brightness_percentage>>' # <<is_on, brightness_percentage>>
            => \/ light_call.method # "idle" /\ light_result' = "returned"
               \/ \E percentage \in InboundPercentages :
                    LightStateReceived(percentage)]_vars
    /\ [](select_result = "command_error"
            => option_writes = 0 /\ ha_state_writes = 0)
    /\ [][(select_call.step # "idle" /\ select_result' # "ok")
            => UNCHANGED <<attr_current_option, option_writes, ha_state_writes>>
               \/ \E data \in CoordinatorData(entity_class) :
                    CoordinatorUpdate(data)]_vars
    /\ [][attr_current_option' # attr_current_option
            => \/ /\ select_call.step \in {"heater", "command"}
                  /\ select_result' = "ok"
                  /\ attr_current_option' = select_call.option
               \/ \E data \in CoordinatorData(entity_class) :
                    CoordinatorUpdate(data)]_vars

\* C12 witness: a seat heater showing "off" was set to "high" with the
\* climate off; auto_conditioning_start returned, the heater command raised,
\* and the entity still shows "off".
C12_Witness ==
    /\ domain = "tesla_fleet"
    /\ entity_class = "seat_heater"
    /\ select_result = "command_error"
    /\ select_call.option = "high"
    /\ commands = <<Command("auto_conditioning_start", NoLevel, None),
                    Command("remote_seat_heater_request", 3, None)>>
    /\ attr_current_option = "off"
    /\ option_writes = 0
    /\ ha_state_writes = 0

=============================================================================
